---- MODULE Spec2Model ----
(***************************************************************************)
(* A model of aesor's shading core: the f64 vector primitives (util.rs),   *)
(* the three analytic shapes (shape/*.rs), the reflection evaluator and    *)
(* the per-pixel draw loop (core.rs).                                      *)
(*                                                                         *)
(* f64 values are modelled in fixed point: the integer n stands for the    *)
(* real n / Scale, every operation rounds to the nearest representable     *)
(* value as IEEE-754 does, and the three non-finite values NaN, +inf and   *)
(* -inf are kept with their IEEE-754 arithmetic.  Signed zero is not kept: *)
(* the code never divides by a zero that could be negative (norm() and     *)
(* abs() return +0).                                                       *)
(***************************************************************************)
EXTENDS Integers, Sequences, FiniteSets, TLC

----------------------------------------------------------------------------
(* f64 *)

Scale == 1000
NaN   == 2147483647
PInf  == 2147483646
NInf  == -PInf
\* the largest real magnitude whose square the model represents
RangeMax == 1400

IsNaN(a) == a = NaN
IsInf(a) == a = PInf \/ a = NInf
IsFin(a) == ~IsNaN(a) /\ ~IsInf(a)

F(n) == n * Scale
One  == F(1)

AbsI(n) == IF n < 0 THEN -n ELSE n
SgnI(n) == IF n < 0 THEN -1 ELSE IF n > 0 THEN 1 ELSE 0

\* f64::abs
AbsF(a) == IF IsNaN(a) THEN NaN ELSE IF IsInf(a) THEN PInf ELSE AbsI(a)

\* unary minus on f64
NegF(a) == IF IsNaN(a) THEN NaN ELSE -a

\* f64 + f64
AddF(a, b) ==
    IF IsNaN(a) \/ IsNaN(b) THEN NaN
    ELSE IF IsInf(a) THEN (IF IsInf(b) /\ a # b THEN NaN ELSE a)
    ELSE IF IsInf(b) THEN b
    ELSE a + b

\* f64 - f64
SubF(a, b) == AddF(a, NegF(b))

\* |a| * |b| / Scale rounded to nearest, without forming a * b
MulMag(a, b) == (a \div Scale) * b + (((a % Scale) * b + (Scale \div 2)) \div Scale)

\* f64 * f64
MulF(a, b) ==
    IF IsNaN(a) \/ IsNaN(b) THEN NaN
    ELSE IF IsInf(a) \/ IsInf(b)
         THEN (IF a = 0 \/ b = 0 THEN NaN
               ELSE IF SgnI(a) * SgnI(b) > 0 THEN PInf ELSE NInf)
    ELSE SgnI(a) * SgnI(b) * MulMag(AbsI(a), AbsI(b))

\* |a| * Scale / |b| rounded to nearest, without forming a * Scale
DivMag(a, b) == (a \div b) * Scale + (((a % b) * Scale + (b \div 2)) \div b)

\* f64 / f64
DivF(a, b) ==
    IF IsNaN(a) \/ IsNaN(b) THEN NaN
    ELSE IF IsInf(a)
         THEN (IF IsInf(b) THEN NaN
               ELSE IF SgnI(a) * (IF b < 0 THEN -1 ELSE 1) > 0 THEN PInf ELSE NInf)
    ELSE IF IsInf(b) THEN 0
    ELSE IF b = 0
         THEN (IF a = 0 THEN NaN ELSE IF a > 0 THEN PInf ELSE NInf)
    ELSE SgnI(a) * SgnI(b) * DivMag(AbsI(a), AbsI(b))

\* floor(x * y / Scale), without forming x * y (x, y >= 0)
ProdFloor(x, y) == (x \div Scale) * y + (((x % Scale) * y) \div Scale)

\* x * y <= v * Scale, without forming either product (x, y, v >= 0)
ProdLe(x, y, v) ==
    LET fl == ProdFloor(x, y)
    IN  fl < v \/ (fl = v /\ ((x % Scale) * y) % Scale = 0)

RECURSIVE SqrtSearch(_, _, _)
\* the greatest x in lo..hi with x * x <= v * Scale (lo satisfies it)
SqrtSearch(v, lo, hi) ==
    IF lo >= hi THEN lo
    ELSE LET mid == (lo + hi + 1) \div 2
         IN  IF ProdLe(mid, mid, v) THEN SqrtSearch(v, mid, hi)
             ELSE SqrtSearch(v, lo, mid - 1)

\* f64::sqrt: correctly rounded; a value past the model's range has no result
SqrtF(a) ==
    IF IsNaN(a) \/ a < 0 THEN NaN
    ELSE IF a = PInf THEN PInf
    ELSE IF a > RangeMax * RangeMax * Scale THEN CHOOSE x \in {} : TRUE
    ELSE LET hi == IF a < Scale THEN Scale
                   ELSE IF a < RangeMax * Scale THEN a ELSE RangeMax * Scale
             x  == SqrtSearch(a, 0, hi)
         IN  IF ProdFloor(x, x + 1) < a THEN x + 1 ELSE x

\* f64::min: a NaN operand is ignored
MinF(a, b) == IF IsNaN(a) THEN b ELSE IF IsNaN(b) THEN a ELSE IF a < b THEN a ELSE b

\* f64::max: a NaN operand is ignored
MaxF(a, b) == IF IsNaN(a) THEN b ELSE IF IsNaN(b) THEN a ELSE IF a > b THEN a ELSE b

\* f64 <= f64 and f64 < f64: false when either side is NaN
LeF(a, b) == ~IsNaN(a) /\ ~IsNaN(b) /\ a <= b
LtF(a, b) == ~IsNaN(a) /\ ~IsNaN(b) /\ a < b

RECURSIVE PowiF(_, _)
\* f64::powi for an exponent n >= 0 (x^0 = 1, also for NaN)
PowiF(a, n) == IF n = 0 THEN One ELSE MulF(a, PowiF(a, n - 1))

\* f64::asin: the angle is kept as its sine; NaN outside [-1, 1]
AsinF(a) == IF IsNaN(a) \/ IsInf(a) \/ AbsI(a) > One THEN NaN ELSE a

\* f64::cos of an angle of [-pi/2, pi/2] kept as its sine
CosF(t) == IF IsNaN(t) THEN NaN ELSE SqrtF(SubF(One, MulF(t, t)))

\* a cast that keeps the magnitude of a negative value instead of giving 0
AsU8_magnitude(a) ==
    IF IsNaN(a) THEN 0
    ELSE IF IsInf(a) THEN 255
    ELSE IF AbsI(a) \div Scale > 255 THEN 255
    ELSE AbsI(a) \div Scale

\* `f64 as u8`: saturating, truncating, NaN to 0
AsU8(a) ==
    IF IsNaN(a) THEN 0
    ELSE IF a = PInf THEN 255
    ELSE IF a < 0 THEN 0
    ELSE IF a \div Scale > 255 THEN 255
    ELSE a \div Scale

----------------------------------------------------------------------------
(* util.rs: Vec3 *)

Vec3(x, y, z) == [x |-> x, y |-> y, z |-> z]

\* util::point
point(x, y) == Vec3(x, y, 0)

dot(a, b) == AddF(AddF(MulF(a.x, b.x), MulF(a.y, b.y)), MulF(a.z, b.z))

norm(a) == SqrtF(AddF(AddF(PowiF(a.x, 2), PowiF(a.y, 2)), PowiF(a.z, 2)))

\* &Vec3 / f64
div(a, k) == Vec3(DivF(a.x, k), DivF(a.y, k), DivF(a.z, k))

\* f64 * &Vec3
mul(k, a) == Vec3(MulF(k, a.x), MulF(k, a.y), MulF(k, a.z))

neg(a) == mul(NegF(One), a)

sub(a, b) == Vec3(SubF(a.x, b.x), SubF(a.y, b.y), SubF(a.z, b.z))

normal(a) == div(a, norm(a))

rot_xy(a, rot) ==
    LET nrot == normal(rot)
    IN  Vec3(SubF(MulF(a.x, nrot.x), MulF(a.y, nrot.y)),
             AddF(MulF(a.x, nrot.y), MulF(a.y, nrot.x)),
             a.z)

VecFinite(a) == IsFin(a.x) /\ IsFin(a.y) /\ IsFin(a.z)

----------------------------------------------------------------------------
(* shape/*.rs: the shapes and their surface queries *)

Corn(center, radius, height) ==
    [kind |-> "Corn", center |-> center, radius |-> radius, height |-> height]

Concave(center, radius, depth) ==
    [kind |-> "Concave", center |-> center, radius |-> radius, depth |-> depth]

RoundBox(top_left, bottom_right, border_radius, depth) ==
    [kind |-> "RoundBox", top_left |-> top_left, bottom_right |-> bottom_right,
     border_radius |-> border_radius, depth |-> depth]

\* Option<(Vec3, f64)>
None == [some |-> FALSE, n |-> Vec3(0, 0, 0), alpha |-> 0]
Some(n, alpha) == [some |-> TRUE, n |-> n, alpha |-> alpha]

\* Corn::normal_vec testing the query point itself, not its offset from the centre
Corn_normal_vec_uncentred(self, p0) ==
    LET p == sub(p0, self.center)
    IN  IF LeF(norm(p0), self.radius)
        THEN LET n == normal(rot_xy(Vec3(self.height, 0, self.radius), p))
             IN  Some(n, MinF(SubF(self.radius, norm(p)), One))
        ELSE None

\* Corn::normal_vec
Corn_normal_vec(self, p0) ==
    LET p == sub(p0, self.center)
    IN  IF LeF(norm(p), self.radius)
        THEN LET n == normal(rot_xy(Vec3(self.height, 0, self.radius), p))
             IN  Some(n, MinF(SubF(self.radius, norm(p)), One))
        ELSE None

\* the sphere radius r of Concave::normal_vec
Concave_r(self) ==
    LET y0 == DivF(SubF(PowiF(self.radius, 2), PowiF(self.depth, 2)),
                   MulF(F(2), AbsF(self.depth)))
    IN  AddF(AbsF(self.depth), y0)

\* Concave::normal_vec without the .min(1.) on the coverage
Concave_normal_vec_no_min(self, p0) ==
    LET p == sub(p0, self.center)
    IN  IF LeF(norm(p), self.radius)
        THEN LET r      == AddF(AbsF(self.depth),
                                DivF(SubF(PowiF(self.radius, 2), PowiF(self.depth, 2)),
                                     MulF(F(2), AbsF(self.depth))))
                 theta  == AsinF(DivF(norm(p), r))
                 p_sign == DivF(MulF(NegF(One), self.depth), AbsF(self.depth))
                 n      == normal(Vec3(MulF(p_sign, p.x), MulF(p_sign, p.y),
                                       MulF(r, CosF(theta))))
             IN  Some(n, SubF(self.radius, norm(p)))
        ELSE None

\* Concave::normal_vec with p_sign applied to the z component as well
Concave_normal_vec_signed_z(self, p0) ==
    LET p == sub(p0, self.center)
    IN  IF LeF(norm(p), self.radius)
        THEN LET r      == AddF(AbsF(self.depth),
                                DivF(SubF(PowiF(self.radius, 2), PowiF(self.depth, 2)),
                                     MulF(F(2), AbsF(self.depth))))
                 theta  == AsinF(DivF(norm(p), r))
                 p_sign == DivF(MulF(NegF(One), self.depth), AbsF(self.depth))
                 n      == normal(Vec3(MulF(p_sign, p.x), MulF(p_sign, p.y),
                                       MulF(p_sign, MulF(r, CosF(theta)))))
             IN  Some(n, MinF(SubF(self.radius, norm(p)), One))
        ELSE None

\* Concave::normal_vec
Concave_normal_vec(self, p0) ==
    LET p == sub(p0, self.center)
    IN  IF LeF(norm(p), self.radius)
        THEN LET r      == Concave_r(self)
                 theta  == AsinF(DivF(norm(p), r))
                 p_sign == DivF(MulF(NegF(One), self.depth), AbsF(self.depth))
                 n      == normal(Vec3(MulF(p_sign, p.x), MulF(p_sign, p.y),
                                       MulF(r, CosF(theta))))
             IN  Some(n, MinF(SubF(self.radius, norm(p)), One))
        ELSE None

\* the rim anchor with the right-hand column anchored at top_left.x
RoundBox_rim_left_only(self, p) ==
    IF LeF(p.x, self.top_left.x)
    THEN (IF LeF(p.y, self.top_left.y) THEN <<self.top_left.x, self.top_left.y>>
          ELSE IF LtF(p.y, self.bottom_right.y) THEN <<self.top_left.x, p.y>>
          ELSE <<self.top_left.x, self.bottom_right.y>>)
    ELSE IF LtF(p.x, self.bottom_right.x)
    THEN (IF LeF(p.y, self.top_left.y) THEN <<p.x, self.top_left.y>>
          ELSE IF LtF(p.y, self.bottom_right.y) THEN <<p.x, p.y>>
          ELSE <<p.x, self.bottom_right.y>>)
    ELSE (IF LeF(p.y, self.top_left.y) THEN <<self.top_left.x, self.top_left.y>>
          ELSE IF LtF(p.y, self.bottom_right.y) THEN <<self.top_left.x, p.y>>
          ELSE <<self.top_left.x, self.bottom_right.y>>)

\* the rim anchor (rim_x, rim_y) of RoundBox::normal_vec
RoundBox_rim(self, p) ==
    IF LeF(p.x, self.top_left.x)
    THEN (IF LeF(p.y, self.top_left.y) THEN <<self.top_left.x, self.top_left.y>>
          ELSE IF LtF(p.y, self.bottom_right.y) THEN <<self.top_left.x, p.y>>
          ELSE <<self.top_left.x, self.bottom_right.y>>)
    ELSE IF LtF(p.x, self.bottom_right.x)
    THEN (IF LeF(p.y, self.top_left.y) THEN <<p.x, self.top_left.y>>
          ELSE IF LtF(p.y, self.bottom_right.y) THEN <<p.x, p.y>>
          ELSE <<p.x, self.bottom_right.y>>)
    ELSE (IF LeF(p.y, self.top_left.y) THEN <<self.bottom_right.x, self.top_left.y>>
          ELSE IF LtF(p.y, self.bottom_right.y) THEN <<self.bottom_right.x, p.y>>
          ELSE <<self.bottom_right.x, self.bottom_right.y>>)

\* RoundBox::normal_vec with the transient Concave always centred at top_left
RoundBox_normal_vec_at_top_left(self, p) ==
    LET rim == Concave(point(self.top_left.x, self.top_left.y),
                       self.border_radius, self.depth)
    IN  Concave_normal_vec(rim, p)

\* RoundBox::normal_vec
RoundBox_normal_vec(self, p) ==
    LET rim == Concave(point(RoundBox_rim(self, p)[1], RoundBox_rim(self, p)[2]),
                       self.border_radius, self.depth)
    IN  Concave_normal_vec(rim, p)

\* Reflect::normal_vec, by the shape's type
normal_vec(self, p) ==
    CASE self.kind = "Corn"     -> Corn_normal_vec(self, p)
      [] self.kind = "Concave"  -> Concave_normal_vec(self, p)
      [] self.kind = "RoundBox" -> RoundBox_normal_vec(self, p)

----------------------------------------------------------------------------
(* core.rs: the reflection evaluator *)

\* Option<(f64, f64, f64)>
NoReflect == [some |-> FALSE, df |-> 0, sp |-> 0, alpha |-> 0]

\* Reflect::reflect
reflect(self, p, incident, sight) ==
    LET nv == normal_vec(self, p)
    IN  IF nv.some
        THEN LET n == nv.n
                 reflection ==
                     normal(sub(incident, mul(MulF(F(2), dot(incident, n)), n)))
             IN  [some |-> TRUE,
                  df |-> NegF(dot(incident, n)),
                  sp |-> MaxF(dot(reflection, neg(sight)), 0),
                  alpha |-> nv.alpha]
        ELSE NoReflect

----------------------------------------------------------------------------
(* core.rs: Material, Setting and the per-pixel body of the draw loop *)

Material(color, shininess, reflection_brightness) ==
    [color |-> color, shininess |-> shininess,
     reflection_brightness |-> reflection_brightness]

Setting(distance, incident, ambient_brightness) ==
    [distance |-> distance, incident |-> incident,
     ambient_brightness |-> ambient_brightness]

\* the sight vector of pixel (x, y) in a buffer of w by h pixels
Sight(setting, x, y, w, h) ==
    normal(Vec3(SubF(F(x), DivF(F(w), F(2))),
                SubF(F(y), DivF(F(h), F(2))),
                NegF(F(setting.distance))))

\* the Rgba the loop body blends onto pixel (x, y), when the shape is hit there
SourceOf(rf, material, setting) ==
    LET df   == AddF(MulF(300, rf.df), setting.ambient_brightness)
        spec == MulF(MulF(material.reflection_brightness, F(255)),
                     PowiF(rf.sp, material.shininess))
        ch(c) == AsU8(MinF(AddF(MulF(F(material.color[c]), df), spec), F(255)))
        a    == AsU8(MinF(MulF(F(material.color[4]), rf.alpha), F(255)))
    IN  <<ch(1), ch(2), ch(3), a>>

\* blend with its two pixels exchanged: the buffer's pixel laid over the source
Blend_swapped(bg, fg) ==
    IF bg[4] = 0 THEN fg
    ELSE IF bg[4] = 255 THEN bg
    ELSE LET af == 255 * bg[4] + 255 * fg[4] - bg[4] * fg[4]
             ch(c) == (bg[c] * bg[4] * 255 + fg[c] * fg[4] * (255 - bg[4])) \div af
         IN  <<ch(1), ch(2), ch(3), af \div 255>>

\* image's Rgba<u8>::blend (source-over): px.blend(&fg)
Blend(bg, fg) ==
    IF fg[4] = 0 THEN bg
    ELSE IF fg[4] = 255 THEN fg
    ELSE LET af == 255 * fg[4] + 255 * bg[4] - fg[4] * bg[4]
             ch(c) == (fg[c] * fg[4] * 255 + bg[c] * bg[4] * (255 - fg[4])) \div af
         IN  <<ch(1), ch(2), ch(3), af \div 255>>

\* the reflect call of the loop body at pixel (x, y)
ReflectAt(self, setting, x, y, w, h) ==
    reflect(self, Vec3(F(x), F(y), 0), setting.incident, Sight(setting, x, y, w, h))

\* the loop body clearing a pixel the shape misses instead of leaving it
DrawPixel_clear_on_miss(self, setting, material, x, y, w, h, px) ==
    LET rf == ReflectAt(self, setting, x, y, w, h)
    IN  IF rf.some THEN Blend(px, SourceOf(rf, material, setting)) ELSE <<0, 0, 0, 0>>

\* the loop body: the new value of pixel (x, y), whose value was px
DrawPixel(self, setting, material, x, y, w, h, px) ==
    LET rf == ReflectAt(self, setting, x, y, w, h)
    IN  IF rf.some THEN Blend(px, SourceOf(rf, material, setting)) ELSE px

----------------------------------------------------------------------------
(* The state: one surface query, and one draw call on a Vec of shapes *)

VARIABLES
    pc,        \* "query" | "answered" | "draw" | "done"
    shape,     \* the shape queried
    p,         \* the query point
    res,       \* what normal_vec returned
    rfl,       \* what reflect returned
    shapes,    \* the Vec<E> being drawn
    objects,   \* the Objects drawn one after another, each with its own material
    material,
    setting,
    img,       \* the pixel buffer: <<x, y>> to Rgba
    orig,      \* the buffer as it was when draw was called
    before,    \* the buffer as it was when the current element's pass began
    e,         \* the index in shapes of the element being drawn
    i,         \* the index of the next pixel of enumerate_pixels_mut
    evals      \* how often the current pass has evaluated each pixel

vars == <<pc, shape, p, res, rfl, shapes, objects, material, setting, img, orig, before,
          e, i, evals>>

\* the buffer is Width by Height pixels
Width  == 4
Height == 3
\* a Vec of at most MaxVec shapes is drawn
MaxVec == 2
\* query points are taken on the grid 0..MaxCoord in both axes, and at the
\* places the examples' shapes make interesting
MaxCoord == 6

Pixels == (0 .. Width - 1) \X (0 .. Height - 1)

\* the column taken modulo the height
PixelX_by_height(k) == k % Height

\* enumerate_pixels_mut: the coordinates of the k-th pixel it yields
PixelX(k) == k % Width
PixelY(k) == k \div Width

\* the incident light and ambient level of examples/dial.rs and slider.rs
ExampleIncident == Vec3(200, 1000, -200)
ExampleAmbient  == 800

\* shapes of examples/dial.rs and examples/slider.rs, and their neighbours
ExampleShapes ==
    { Corn(point(F(150), F(150)), F(150), F(450)),
      Concave(point(F(150), F(150)), F(130), F(30)),
      Corn(point(F(215), F(85)), F(20), F(-30)),
      Concave(point(F(215), F(85)), F(15), 2500),
      RoundBox(point(F(50), F(100)), point(F(250), F(100)), F(40), F(-40)),
      RoundBox(point(F(50), F(100)), point(F(250), F(100)), F(25), F(25)),
      RoundBox(point(F(100), F(90)), point(F(100), F(110)), F(4), F(-4)),
      RoundBox(point(F(50), F(90)), point(F(250), F(110)), F(20), F(20)),
      RoundBox(point(F(250), F(110)), point(F(50), F(90)), F(20), F(-20)) }

\* <T: Reflect as Draw>::draw as a whole: the buffer after one pass over buf
DrawAll(self, set, mat, buf) ==
    [k \in Pixels |-> DrawPixel(self, set, mat, k[1], k[2], Width, Height, buf[k])]

\* shapes that fit a buffer of a few pixels
SmallShapes ==
    { Corn(point(F(2), F(1)), F(2), F(6)),
      Concave(point(F(2), F(1)), 1500, 500),
      Concave(point(F(2), F(2)), F(2), F(-2)),
      Concave(point(F(3), F(3)), F(1), F(3)),
      Concave(point(800, F(1)), 200, 199),
      Concave(point(F(1), F(1)), F(2), 0),
      RoundBox(point(F(1), F(1)), point(F(2), F(1)), 1500, F(-1)),
      RoundBox(point(F(1), F(0)), point(F(3), F(2)), F(1), 500),
      RoundBox(point(F(3), F(2)), point(F(1), F(1)), F(1), F(1)) }

QueryShapes == ExampleShapes \cup SmallShapes

QueryPoints ==
    { Vec3(F(x), F(y), 0) : x \in 0 .. MaxCoord, y \in 0 .. MaxCoord }
    \cup { Vec3(F(x), F(150), 0) : x \in {20, 19, 150, 151, 280, 281} }
    \cup { Vec3(F(x), F(y), 0) : x \in {10, 50, 150, 250, 290}, y \in {60, 100, 140} }
    \cup { Vec3(F(x), F(y), 0) : x \in {40, 50, 150, 250, 260}, y \in {80, 90, 110, 120} }
    \cup { Vec3(F(x), F(y), 0) : x \in {96, 100, 104}, y \in {86, 90, 100, 110, 114} }
    \cup { Vec3(F(x), F(85), 0) : x \in {195, 200, 215, 229, 230, 235} }

DrawShapes ==
    { Corn(point(F(2), F(1)), F(2), F(6)),
      Concave(point(F(2), F(1)), 1500, 500),
      Concave(point(F(1), F(1)), F(2), 0),
      RoundBox(point(F(1), F(1)), point(F(2), F(1)), 1500, F(-1)) }

RECURSIVE SeqsUpTo(_, _)
\* the sequences over S of length at most n
SeqsUpTo(S, n) ==
    IF n = 0 THEN { <<>> }
    ELSE LET shorter == SeqsUpTo(S, n - 1)
         IN  shorter \cup { Append(q, x) : q \in shorter, x \in S }

Materials ==
    { Material(<<179, 220, 214, 255>>, 4, 200),
      Material(<<255, 255, 255, 128>>, 7, One) }

Settings ==
    { Setting(20, ExampleIncident, ExampleAmbient),
      Setting(0, Vec3(0, 0, One), 0) }

\* RgbaImage::new, and a buffer a caller has already painted
Buffers ==
    { [k \in Pixels |-> <<0, 0, 0, 0>>],
      [k \in Pixels |-> <<10 * k[1], 20 * k[2], 200, 255 - 60 * ((k[1] + k[2]) % 3)>>] }

NoEvals == [k \in Pixels |-> 0]

\* a surface query about to be made
QueryInit ==
    /\ pc = "query"
    /\ shape \in QueryShapes
    /\ p \in QueryPoints
    /\ res = None
    /\ rfl = NoReflect
    /\ shapes = <<>>
    /\ objects = <<>>
    /\ material = Material(<<255, 255, 255, 255>>, 7, One)
    /\ setting = Setting(1000, ExampleIncident, ExampleAmbient)
    /\ img = [k \in Pixels |-> <<0, 0, 0, 0>>]
    /\ orig = img
    /\ before = img
    /\ e = 1
    /\ i = 0
    /\ evals = NoEvals

\* shape.normal_vec(&p) and shape.reflect(&p, &incident, &sight)
Query ==
    /\ pc = "query"
    /\ res' = normal_vec(shape, p)
    /\ rfl' = reflect(shape, p, setting.incident,
                      normal(Vec3(0, 0, NegF(F(setting.distance)))))
    /\ pc' = "answered"
    /\ UNCHANGED <<shape, p, shapes, objects, material, setting, img, orig, before, e, i, evals>>

QueryNext == Query

QuerySpec == QueryInit /\ [][QueryNext]_vars

\* shapes.draw(&setting, &material, &mut img) has just been called
Init ==
    /\ pc = "draw"
    /\ shapes \in SeqsUpTo(DrawShapes, MaxVec)
    /\ objects = <<>>
    /\ material \in Materials
    /\ setting \in Settings
    /\ img \in Buffers
    /\ orig = img
    /\ before = img
    /\ e = 1
    /\ i = 0
    /\ evals = NoEvals
    /\ shape = Corn(point(0, 0), 0, 0)
    /\ p = Vec3(0, 0, 0)
    /\ res = None
    /\ rfl = NoReflect

\* the control flow of one iteration of `for (x, y, px) in img.enumerate_pixels_mut()`
StepControl ==
    /\ pc = "draw"
    /\ e <= Len(shapes)
    /\ i < Width * Height
    /\ <<PixelX(i), PixelY(i)>> \in Pixels
    /\ i' = i + 1
    /\ UNCHANGED <<pc, e>>

\* one iteration of `for (x, y, px) in img.enumerate_pixels_mut()`
DrawStep ==
    /\ StepControl
    /\ img' = [img EXCEPT ![<<PixelX(i), PixelY(i)>>] =
                   DrawPixel(shapes[e], setting, material,
                             PixelX(i), PixelY(i), Width, Height, @)]
    /\ evals' = [evals EXCEPT ![<<PixelX(i), PixelY(i)>>] = @ + 1]
    /\ UNCHANGED <<shape, p, res, rfl, shapes, objects, material, setting, orig, before>>

\* the control flow of the pixel loop ending
EndPassControl ==
    /\ pc = "draw"
    /\ e <= Len(shapes)
    /\ i = Width * Height
    /\ e' = e + 1
    /\ i' = 0
    /\ UNCHANGED pc

\* the pixel loop ends: e.draw returns and `for e in self` goes on
EndPass ==
    /\ EndPassControl
    /\ before' = img
    /\ evals' = NoEvals
    /\ UNCHANGED <<shape, p, res, rfl, shapes, objects, material, setting, img, orig>>

\* draw returning once the first element has been drawn
Return_after_first ==
    /\ pc = "draw"
    /\ e > 1
    /\ i = 0
    /\ pc' = "done"
    /\ UNCHANGED <<shape, p, res, rfl, shapes, objects, material, setting, img, orig, before,
                   e, i, evals>>

\* the control flow of `for e in self` ending
ReturnControl ==
    /\ pc = "draw"
    /\ e > Len(shapes)
    /\ pc' = "done"
    /\ UNCHANGED <<e, i>>

\* `for e in self` ends: draw returns
Return ==
    /\ ReturnControl
    /\ UNCHANGED <<shape, p, res, rfl, shapes, objects, material, setting, img, orig, before,
                   evals>>

Next == DrawStep \/ EndPass \/ Return

Spec == Init /\ [][Next]_vars

\* the control flow of a draw call: what each step of Next does to pc, e and i
Loop == StepControl \/ EndPassControl \/ ReturnControl

\* a draw call is one uninterrupted, single-threaded loop nest: as long as it
\* has a next step, it takes it
FairSpec == Spec /\ WF_<<pc, e, i>>(Loop)

----------------------------------------------------------------------------
(* Two Objects drawn one after the other, each with its own material, as    *)
(* the examples do: a.with(m).draw(&setting, &mut img); b.with(n).draw(..)  *)

\* Object<T> { shape, material }
Object(s, m) == [shape |-> s, material |-> m]

\* shapes in opposite corners of the buffer, and two that cover its middle
OrderShapes ==
    { Concave(point(0, 0), F(1), 500),
      Corn(point(F(3), F(2)), F(1), F(3)),
      Corn(point(F(2), F(1)), F(2), F(6)),
      Concave(point(F(2), F(1)), 1500, 500) }

\* the first Object's draw has just been called
ObjectsInit ==
    /\ pc = "objects"
    /\ objects \in { <<Object(a, m), Object(b, n)>> :
                        a \in OrderShapes, b \in OrderShapes,
                        m \in Materials, n \in Materials }
    /\ setting \in Settings
    /\ img \in Buffers
    /\ orig = img
    /\ before = img
    /\ e = 1
    /\ i = 0
    /\ evals = NoEvals
    /\ shapes = <<>>
    /\ material = Material(<<255, 255, 255, 255>>, 7, One)
    /\ shape = Corn(point(0, 0), 0, 0)
    /\ p = Vec3(0, 0, 0)
    /\ res = None
    /\ rfl = NoReflect

\* one iteration of the pixel loop of Object::draw, which is
\* self.shape.draw(setting, &self.material, img)
ObjectStep ==
    /\ pc = "objects"
    /\ e <= Len(objects)
    /\ i < Width * Height
    /\ img' = [img EXCEPT ![<<PixelX(i), PixelY(i)>>] =
                   DrawPixel(objects[e].shape, setting, objects[e].material,
                             PixelX(i), PixelY(i), Width, Height, @)]
    /\ evals' = [evals EXCEPT ![<<PixelX(i), PixelY(i)>>] = @ + 1]
    /\ i' = i + 1
    /\ UNCHANGED <<pc, shape, p, res, rfl, shapes, objects, material, setting,
                   orig, before, e>>

\* an Object's draw returns and the caller goes on to the next Object
ObjectEndPass ==
    /\ pc = "objects"
    /\ e <= Len(objects)
    /\ i = Width * Height
    /\ e' = e + 1
    /\ i' = 0
    /\ before' = img
    /\ evals' = NoEvals
    /\ UNCHANGED <<pc, shape, p, res, rfl, shapes, objects, material, setting,
                   img, orig>>

\* the last Object has been drawn
ObjectsDrawn ==
    /\ pc = "objects"
    /\ e > Len(objects)
    /\ pc' = "drawn"
    /\ UNCHANGED <<shape, p, res, rfl, shapes, objects, material, setting, img,
                   orig, before, e, i, evals>>

ObjectsNext == ObjectStep \/ ObjectEndPass \/ ObjectsDrawn

ObjectsSpec == ObjectsInit /\ [][ObjectsNext]_vars

----------------------------------------------------------------------------
(* Notions the properties below are stated with *)

\* the centre a query at q is measured from: the shape's centre, or the rim anchor
CenterOf(s, q) ==
    IF s.kind = "RoundBox"
    THEN point(RoundBox_rim(s, q)[1], RoundBox_rim(s, q)[2])
    ELSE s.center

RadiusOf(s) == IF s.kind = "RoundBox" THEN s.border_radius ELSE s.radius

\* the distance of q from the centre it is measured from
Dist(s, q) == norm(sub(q, CenterOf(s, q)))

\* q lies strictly outside the footprint of s
Outside(s, q) == LtF(RadiusOf(s), Dist(s, q))

\* the query point of pixel k
PixelPoint(k) == Vec3(F(k[1]), F(k[2]), 0)

PassOver == pc = "draw" /\ e <= Len(shapes) /\ i = Width * Height

MinI(a, b) == IF a < b THEN a ELSE b
MaxI(a, b) == IF a > b THEN a ELSE b

\* v clamped onto [lo, hi]
Clamp(v, lo, hi) == IF v < lo THEN lo ELSE IF v > hi THEN hi ELSE v

\* the query is at the pole of the (transient) Concave
AtPole(s, q) == CenterOf(s, q).x = q.x /\ CenterOf(s, q).y = q.y

----------------------------------------------------------------------------
C2_Coverage ==
    (pc = "answered" /\ res.some) =>
        LET d == Dist(shape, p)
            r == RadiusOf(shape)
        IN  /\ res.alpha = MinF(One, SubF(r, d))
            /\ 0 <= res.alpha /\ res.alpha <= One
            /\ (res.alpha = 0 <=> d = r)
            /\ (LeF(AddF(d, One), r) => res.alpha = One)
            /\ \A q \in QueryPoints :
                   (normal_vec(shape, q).some /\ LeF(Dist(shape, q), d))
                       => normal_vec(shape, q).alpha >= res.alpha

\* a hit on the soft edge: coverage strictly between 0 and 1
C2_Witness == pc = "answered" /\ res.some /\ 0 < res.alpha /\ res.alpha < One

(* C3, as claimed: the rim anchor of every RoundBox query is the clamp of p *)
(* onto the rectangle spanned by top_left and bottom_right, whichever way   *)
(* round the two corners are given.                                         *)
C3_RimIsClampOfSpan ==
    (pc = "answered" /\ shape.kind = "RoundBox") =>
        RoundBox_rim(shape, p) =
            << Clamp(p.x, MinI(shape.top_left.x, shape.bottom_right.x),
                          MaxI(shape.top_left.x, shape.bottom_right.x)),
               Clamp(p.y, MinI(shape.top_left.y, shape.bottom_right.y),
                          MaxI(shape.top_left.y, shape.bottom_right.y)) >>

(* C3, amended: on each axis where top_left <= bottom_right (equality, a    *)
(* box degenerate to a line or a point, included) the rim anchor's          *)
(* coordinate is p's coordinate clamped onto [top_left, bottom_right].      *)
C3_RimIsClamp ==
    (pc = "answered" /\ shape.kind = "RoundBox") =>
        /\ shape.top_left.x <= shape.bottom_right.x =>
               RoundBox_rim(shape, p)[1] =
                   Clamp(p.x, shape.top_left.x, shape.bottom_right.x)
        /\ shape.top_left.y <= shape.bottom_right.y =>
               RoundBox_rim(shape, p)[2] =
                   Clamp(p.y, shape.top_left.y, shape.bottom_right.y)

\* a query to the right of a proper box, level with its face: the anchor is on
\* the right edge
C3_Witness ==
    /\ pc = "answered" /\ shape.kind = "RoundBox"
    /\ shape.top_left.x < shape.bottom_right.x
    /\ shape.top_left.y < shape.bottom_right.y
    /\ p.x > shape.bottom_right.x
    /\ shape.top_left.y < p.y /\ p.y < shape.bottom_right.y
    /\ RoundBox_rim(shape, p) = <<shape.bottom_right.x, p.y>>

(* C4, as claimed: at the pole of a Concave, or of a RoundBox's transient   *)
(* Concave (rim anchor = query point), with depth # 0, the z component of   *)
(* the normal returned has the sign of -depth.                              *)
C4_PoleZSignOfMinusDepth ==
    (/\ pc = "answered" /\ shape.kind \in {"Concave", "RoundBox"}
     /\ AtPole(shape, p) /\ shape.depth # 0 /\ res.some) =>
        /\ IsFin(res.n.z)
        /\ SgnI(res.n.z) = SgnI(-shape.depth)

(* C4, amended: there the query hits (the radius being >= 0) and the normal *)
(* returned is (0, 0, 1): its z component is positive whatever the sign of  *)
(* depth.                                                                   *)
C4_PoleNormalFacesViewer ==
    (/\ pc = "answered" /\ shape.kind \in {"Concave", "RoundBox"}
     /\ AtPole(shape, p) /\ shape.depth # 0 /\ RadiusOf(shape) >= 0) =>
        /\ res.some
        /\ IsFin(res.n.z) /\ res.n.z > 0
        /\ res.n = Vec3(0, 0, One)

\* the pole of a Concave of positive depth was queried
C4_Witness ==
    /\ pc = "answered" /\ shape.kind = "Concave"
    /\ AtPole(shape, p) /\ shape.depth > 0 /\ res.some

(* C5: the Corn of examples/dial.rs (centre (150,150), radius 150, height   *)
(* 450) queried at its centre returns a hit with the finite unit normal     *)
(* normalize((450, 0, 150)), about (0.949, 0, 0.316), and coverage 1.       *)
C5_CornCentreNormal ==
    (/\ pc = "answered"
     /\ shape = Corn(point(F(150), F(150)), F(150), F(450))
     /\ p = Vec3(F(150), F(150), 0)) =>
        /\ res.some
        /\ res.alpha = One
        /\ VecFinite(res.n)
        /\ AbsI(res.n.x - 949) <= 2 /\ res.n.y = 0 /\ AbsI(res.n.z - 316) <= 2

RECURSIVE DrawEach(_, _, _, _)
\* the buffer after drawing each shape of ss by itself, one whole pass after
\* another, in index order
DrawEach(ss, set, mat, buf) ==
    IF ss = <<>> THEN buf
    ELSE DrawEach(Tail(ss), set, mat, DrawAll(Head(ss), set, mat, buf))

\* the shape is hit at pixel k with a source alpha of 255
Saturated(s, k) ==
    LET rf == ReflectAt(s, setting, k[1], k[2], Width, Height)
    IN  rf.some /\ SourceOf(rf, material, setting)[4] = 255

\* the Rgba computed for pixel k
SourceAt(s, k) ==
    SourceOf(ReflectAt(s, setting, k[1], k[2], Width, Height), material, setting)

(* C6: when draw on a Vec returns, the buffer is the one that drawing each  *)
(* member by itself with the same material, one whole pass after another in *)
(* index order, produces from the buffer draw was called on; for an empty   *)
(* Vec it is that buffer.                                                   *)
C6_VecIsEachInOrder ==
    pc = "done" => img = DrawEach(shapes, setting, material, orig)

\* a Vec of two shapes has been drawn, and the other order would have given
\* another buffer
C6_Witness ==
    /\ pc = "done" /\ Len(shapes) = 2
    /\ img # orig
    /\ img # DrawEach(<<shapes[2], shapes[1]>>, setting, material, orig)

(* C7: when the same shape has been drawn twice in succession, at every     *)
(* pixel whose computed source alpha is 255 the first pass left exactly the *)
(* computed source Rgba and the second pass left it unchanged.              *)
C7_TwiceIsOnce ==
    (PassOver /\ e >= 2 /\ shapes[e] = shapes[e - 1]) =>
        \A k \in Pixels :
            Saturated(shapes[e], k) =>
                /\ before[k] = SourceAt(shapes[e], k)
                /\ img[k] = before[k]

\* the second pass of the same shape is over; a saturated pixel was repainted
\* by the first pass, and a pixel that is not saturated changed in the second
C7_Witness ==
    /\ PassOver /\ e = 2 /\ shapes[1] = shapes[2]
    /\ \E k \in Pixels : Saturated(shapes[e], k) /\ before[k] # orig[k]
    /\ \E k \in Pixels : ~Saturated(shapes[e], k) /\ img[k] # before[k]

(* C8: for a RoundBox with top_left <= bottom_right on both axes, the query *)
(* returns what a Concave of radius border_radius and depth depth centred   *)
(* at the clamp of p onto the box returns; at each of the four corners that *)
(* is the Concave centred at the corner itself.                             *)
C8_RoundBoxIsConcaveAtAnchor ==
    (/\ pc = "answered" /\ shape.kind = "RoundBox"
     /\ shape.top_left.x <= shape.bottom_right.x
     /\ shape.top_left.y <= shape.bottom_right.y) =>
        /\ res = Concave_normal_vec(
                     Concave(point(Clamp(p.x, shape.top_left.x, shape.bottom_right.x),
                                   Clamp(p.y, shape.top_left.y, shape.bottom_right.y)),
                             shape.border_radius, shape.depth), p)
        /\ (/\ p.x \in {shape.top_left.x, shape.bottom_right.x}
            /\ p.y \in {shape.top_left.y, shape.bottom_right.y}) =>
               res = Concave_normal_vec(
                         Concave(point(p.x, p.y), shape.border_radius, shape.depth), p)

\* the bottom-right corner of a proper box was queried, and hit
C8_Witness ==
    /\ pc = "answered" /\ shape.kind = "RoundBox"
    /\ shape.top_left.x < shape.bottom_right.x
    /\ shape.top_left.y < shape.bottom_right.y
    /\ p.x = shape.bottom_right.x /\ p.y = shape.bottom_right.y
    /\ res.some

(* C9: a draw call returns; no pixel is evaluated twice in a pass, a pass   *)
(* that is over has evaluated every pixel of the buffer once, and has given *)
(* each pixel the value that the loop body computes from that pixel's own   *)
(* old value and coordinates.                                               *)
C9_DrawTerminates ==
    /\ <>(pc = "done")
    /\ [](\A k \in Pixels : evals[k] <= 1)
    /\ [](PassOver => \A k \in Pixels : evals[k] = 1)
    /\ [](PassOver => img = DrawAll(shapes[e], setting, material, before))

\* draw has returned from a call in which a shape was hit with a NaN normal
C9_Witness ==
    /\ pc = "done" /\ Len(shapes) >= 1
    /\ \E k \in Pixels :
           LET rf == ReflectAt(shapes[1], setting, k[1], k[2], Width, Height)
           IN  rf.some /\ IsNaN(rf.df)

(* C10: for a Concave with radius > 0 and depth # 0 the sphere radius r is  *)
(* at least radius, so that at every query point with |d| <= radius the     *)
(* asin argument |d| / r is at most 1, the query hits, and the normal and   *)
(* the diffuse and specular terms are finite; at |d| = radius the coverage  *)
(* is 0.                                                                    *)
C10_SphereRadiusCoversFootprint ==
    (/\ pc = "answered" /\ shape.kind = "Concave"
     /\ shape.radius > 0 /\ shape.depth # 0) =>
        /\ LeF(shape.radius, Concave_r(shape))
        /\ LeF(Dist(shape, p), shape.radius) =>
               /\ LeF(DivF(Dist(shape, p), Concave_r(shape)), One)
               /\ res.some /\ VecFinite(res.n)
               /\ rfl.some /\ IsFin(rfl.df) /\ IsFin(rfl.sp)
        /\ Dist(shape, p) = shape.radius => (res.some /\ res.alpha = 0)

\* the f64 a colour channel is cast from, before `.min(255.)`, given what
\* reflect returned:
\* color[c] * (0.3 * df + ambient_brightness) + reflection_brightness * 255 * sp^shininess
ChannelOf(rf, c) ==
    AddF(MulF(F(material.color[c]),
              AddF(MulF(300, rf.df), setting.ambient_brightness)),
         MulF(MulF(material.reflection_brightness, F(255)),
              PowiF(rf.sp, material.shininess)))

\* the f64 the alpha channel is cast from, before `.min(255.)`: color.alpha * coverage
AlphaOf(rf) == MulF(F(material.color[4]), rf.alpha)

\* the same values at pixel k of shape s
ChannelValue(s, k, c) ==
    ChannelOf(ReflectAt(s, setting, k[1], k[2], Width, Height), c)

AlphaValue(s, k) == AlphaOf(ReflectAt(s, setting, k[1], k[2], Width, Height))

\* the shape is hit at pixel k
Hit(s, k) == ReflectAt(s, setting, k[1], k[2], Width, Height).some

\* the channel c is the real number v, up to the fraction a u8 cannot hold
IsChannelOf(c, v) == IsFin(v) /\ F(c) - One < v /\ v < F(c) + One

\* min(255, v) cut to a u8: no more than 255, no less than 0, the fraction
\* dropped; min ignores a NaN v, which leaves 255
CutToU8(v) ==
    IF IsNaN(v) \/ v = PInf \/ v >= F(255) THEN 255
    ELSE IF v < 0 THEN 0
    ELSE v \div Scale

(* C11 as stated: at every hit pixel each colour channel of the source is   *)
(* min(255, color[c] * (0.3 * df + ambient) + reflection_brightness * 255 * *)
(* sp^shininess) and its alpha is min(255, color.alpha * coverage), up to   *)
(* the fraction a u8 drops, for every df, negative ones included.           *)
C11_SourceIsMin255 ==
    PassOver =>
        \A k \in Pixels :
            Hit(shapes[e], k) =>
                /\ \A c \in 1 .. 3 :
                       IsChannelOf(SourceAt(shapes[e], k)[c],
                                   MinF(F(255), ChannelValue(shapes[e], k, c)))
                /\ IsChannelOf(SourceAt(shapes[e], k)[4],
                               MinF(F(255), AlphaValue(shapes[e], k)))

(* C11 amended: at every hit pixel each colour channel of the source is     *)
(* min(255, color[c] * (0.3 * df + ambient) + reflection_brightness * 255 * *)
(* sp^shininess) cut to a u8, that is 0 when the value is negative, else    *)
(* the value without its fraction (255 when the value is NaN); its alpha is *)
(* min(255, color.alpha * coverage) cut the same way; and the pixel holds   *)
(* the blend of that source over its value before the pass.                 *)
C11_SourceIsMin255CutToU8 ==
    PassOver =>
        \A k \in Pixels :
            LET rf  == ReflectAt(shapes[e], setting, k[1], k[2], Width, Height)
                cut == << CutToU8(ChannelOf(rf, 1)), CutToU8(ChannelOf(rf, 2)),
                          CutToU8(ChannelOf(rf, 3)), CutToU8(AlphaOf(rf)) >>
            IN  rf.some =>
                    /\ SourceOf(rf, material, setting) = cut
                    /\ img[k] = Blend(before[k], cut)

\* a pass is over in which a hit pixel with a negative diffuse term had a
\* colour value of -1 or less and got the channel 0, and a hit pixel had a
\* positive colour value with a fraction
C11_Witness ==
    /\ PassOver
    /\ \E k \in Pixels :
           /\ Hit(shapes[e], k)
           /\ ReflectAt(shapes[e], setting, k[1], k[2], Width, Height).df < 0
           /\ IsFin(ChannelValue(shapes[e], k, 1))
           /\ ChannelValue(shapes[e], k, 1) <= -One
           /\ SourceAt(shapes[e], k)[1] = 0
           /\ SourceAt(shapes[e], k)[4] > 0
           /\ img[k] # before[k]
    /\ \E k \in Pixels :
           /\ Hit(shapes[e], k)
           /\ IsFin(ChannelValue(shapes[e], k, 1))
           /\ ChannelValue(shapes[e], k, 1) % Scale # 0
           /\ ChannelValue(shapes[e], k, 1) > 0

\* the pixels of the buffer at which the shape is hit
Footprint(s) == { k \in Pixels : Hit(s, k) }

\* the buffer that drawing the second Object first and the first Object
\* second leaves, from the buffer the calls began with
OtherOrder ==
    DrawAll(objects[1].shape, setting, objects[1].material,
            DrawAll(objects[2].shape, setting, objects[2].material, orig))

(* C12: when two Objects have been drawn one after the other under one      *)
(* setting, each with its own material, every pixel that is not in both     *)
(* footprints holds the value the opposite order would have left there; so  *)
(* if the footprints share no pixel of the buffer, the whole buffer is the  *)
(* one the opposite order would have produced.                              *)
C12_DisjointOrderFree ==
    (pc = "drawn" /\ Len(objects) = 2) =>
        /\ \A k \in Pixels :
               ~(k \in Footprint(objects[1].shape) /\ k \in Footprint(objects[2].shape))
                   => img[k] = OtherOrder[k]
        /\ Footprint(objects[1].shape) \cap Footprint(objects[2].shape) = {}
               => img = OtherOrder

\* two Objects with different materials and different shapes, whose
\* footprints share no pixel, have been drawn, and each changed a pixel
C12_Witness ==
    /\ pc = "drawn" /\ Len(objects) = 2
    /\ objects[1].material # objects[2].material
    /\ Footprint(objects[1].shape) \cap Footprint(objects[2].shape) = {}
    /\ \E k \in Footprint(objects[1].shape) : img[k] # orig[k]
    /\ \E k \in Footprint(objects[2].shape) : img[k] # orig[k]

====
